---- MODULE Spec2Model ----
(***************************************************************************)
(* sift 0.1 - a file sifter (sift.cpp).                                    *)
(*                                                                         *)
(* main() parses the options, Sifter::sift builds the sieve from the       *)
(* names of the destination's subfolders (setSieve), lists and sorts the   *)
(* source items and sifts each of them (siftItem).                         *)
(*                                                                         *)
(* A string is a sequence of one-character strings; a path below the       *)
(* source or the destination folder is the sequence of its element names.  *)
(***************************************************************************)
EXTENDS Integers, Sequences, FiniteSets, TLC

(***************************************************************************)
(* Characters                                                              *)
(***************************************************************************)

\* The characters a name is made of here, with their ASCII codes.
Upper == << "A", "B", "C", "D", "E", "F", "G", "H", "I", "J", "K", "L", "M",
            "N", "O", "P", "Q", "R", "S", "T", "U", "V", "W", "X", "Y", "Z" >>

Lower == << "a", "b", "c", "d", "e", "f", "g", "h", "i", "j", "k", "l", "m",
            "n", "o", "p", "q", "r", "s", "t", "u", "v", "w", "x", "y", "z" >>

Punct == << <<" ", 32>>, <<"!", 33>>, <<"(", 40>>, <<")", 41>>, <<",", 44>>,
            <<"-", 45>>, <<".", 46>> >>

Char == {Upper[k] : k \in 1..26} \cup {Lower[k] : k \in 1..26}
            \cup {Punct[k][1] : k \in 1..Len(Punct)}

AsciiOrd ==
    [c \in Char |->
        IF \E k \in 1..26 : Upper[k] = c THEN 64 + (CHOOSE k \in 1..26 : Upper[k] = c)
        ELSE IF \E k \in 1..26 : Lower[k] = c THEN 96 + (CHOOSE k \in 1..26 : Lower[k] = c)
        ELSE Punct[CHOOSE k \in 1..Len(Punct) : Punct[k][1] = c][2]]

\* The code of a character (std::string compares characters by code).
Ord(c) == AsciiOrd[c]

\* ba::to_lower on one character: only A-Z change.
ToLowerChar(c) == IF Ord(c) >= 65 /\ Ord(c) <= 90 THEN Lower[Ord(c) + 32 - 96] ELSE c

\* ba::to_lower on a string.
to_lower(s) == [k \in 1..Len(s) |-> ToLowerChar(s[k])]

\* The whitespace ba::trim removes; the space is the only one a name here holds.
IsSpace(c) == c = " "

RECURSIVE TrimLeft(_)
TrimLeft(s) == IF s # <<>> /\ IsSpace(Head(s)) THEN TrimLeft(Tail(s)) ELSE s

RECURSIVE TrimRight(_)
TrimRight(s) ==
    IF s # <<>> /\ IsSpace(s[Len(s)]) THEN TrimRight(SubSeq(s, 1, Len(s) - 1)) ELSE s

\* ba::trim: leading and trailing whitespace removed.
trim(s) == TrimRight(TrimLeft(s))

\* std::string operator<: lexicographic by character code, a proper prefix first.
RECURSIVE StrLess(_, _)
StrLess(a, b) ==
    IF b = <<>> THEN FALSE
    ELSE IF a = <<>> THEN TRUE
    ELSE IF Ord(Head(a)) # Ord(Head(b)) THEN Ord(Head(a)) < Ord(Head(b))
    ELSE StrLess(Tail(a), Tail(b))

\* operator< of vector<string> and of fs::path: lexicographic by element.
RECURSIVE VecLess(_, _)
VecLess(a, b) ==
    IF b = <<>> THEN FALSE
    ELSE IF a = <<>> THEN TRUE
    ELSE IF Head(a) # Head(b) THEN StrLess(Head(a), Head(b))
    ELSE VecLess(Tail(a), Tail(b))

\* ba::split(result, s, is_any_of(delims), token_compress_on): adjacent
\* delimiters count as one; a delimiter at either end leaves an empty token there.
RECURSIVE SplitFrom(_, _, _, _, _)
SplitFrom(s, delims, k, cur, acc) ==
    IF k > Len(s) THEN Append(acc, cur)
    ELSE IF s[k] \in delims
         THEN IF k > 1 /\ s[k - 1] \in delims
              THEN SplitFrom(s, delims, k + 1, cur, acc)
              ELSE SplitFrom(s, delims, k + 1, <<>>, Append(acc, cur))
         ELSE SplitFrom(s, delims, k + 1, Append(cur, s[k]), acc)

split(s, delims) == SplitFrom(s, delims, 1, <<>>, <<>>)

\* std::string::find: the 0-based position of the first occurrence, npos if none.
npos == 0 - 1

RECURSIVE FindFrom(_, _, _)
FindFrom(hay, needle, pos) ==
    IF pos + Len(needle) > Len(hay) THEN npos
    ELSE IF SubSeq(hay, pos + 1, pos + Len(needle)) = needle THEN pos
    ELSE FindFrom(hay, needle, pos + 1)

find(hay, needle) == FindFrom(hay, needle, 0)

\* substr1 as it would be had the '!' been left in the word searched for.
substr1_KeepsBang(s) == s

\* std::string::substr(1).
substr1(s) == SubSeq(s, 2, Len(s))


(***************************************************************************)
(* Paths and sorting                                                       *)
(***************************************************************************)

\* fs::path::filename(): the last element of the path.
filename(p) == p[Len(p)]

\* All orders in which a directory_iterator may report the entries of a folder.
Perms(S) ==
    {p \in [1..Cardinality(S) -> S] : \A i, j \in 1..Cardinality(S) : p[i] = p[j] => i = j}

RECURSIVE InsertPath(_, _)
InsertPath(p, v) ==
    IF v = <<>> THEN <<p>>
    ELSE IF VecLess(p, Head(v)) THEN <<p>> \o v
    ELSE <<Head(v)>> \o InsertPath(p, Tail(v))

\* sort(v.begin(), v.end()) on a vector<fs::path>.
RECURSIVE SortPaths(_)
SortPaths(v) == IF v = <<>> THEN <<>> ELSE InsertPath(Head(v), SortPaths(Tail(v)))

\* A TMapping pair<int, pair<int, vector<string>>> is the tuple
\* <<iScore, i, vsWord>>, i the 0-based index into vPath.
Score(m) == m[1]
PathIndex(m) == m[2]
Words(m) == m[3]

\* operator< of TMapping: by score, then by path index, then by the words.
MappingLess(a, b) ==
    IF Score(a) # Score(b) THEN Score(a) < Score(b)
    ELSE IF PathIndex(a) # PathIndex(b) THEN PathIndex(a) < PathIndex(b)
    ELSE VecLess(Words(a), Words(b))

RECURSIVE InsertMapping(_, _)
InsertMapping(m, v) ==
    IF v = <<>> THEN <<m>>
    ELSE IF MappingLess(m, Head(v)) THEN <<m>> \o v
    ELSE <<Head(v)>> \o InsertMapping(m, Tail(v))

\* sort(vMapping.begin(), vMapping.end()).
RECURSIVE SortMappings(_)
SortMappings(v) == IF v = <<>> THEN <<>> ELSE InsertMapping(Head(v), SortMappings(Tail(v)))

(***************************************************************************)
(* Sifter::setSieve                                                        *)
(***************************************************************************)

\* The subfolders of the sieve, in the order the directory_iterator reports
\* the entries; entries that are no directories are skipped.
RECURSIVE SievePaths(_)
SievePaths(listing) ==
    IF listing = <<>> THEN <<>>
    ELSE IF Head(listing).kind = "dir"
         THEN <<<<Head(listing).name>>>> \o SievePaths(Tail(listing))
         ELSE SievePaths(Tail(listing))

\* The word-groups of a folder name: trimmed, lower-cased, split at ( ) and ,
WordGroups(sSieveEntryName) == split(to_lower(trim(sSieveEntryName)), {"(", ")", ","})

\* GroupMapping as it would be were the score tested after the word count is
\* taken off, so that a group of score 0 is dropped.
GroupMapping_DropsScoreZero(i, sWordGroup) ==
    LET g == trim(sWordGroup)
        vsWord == split(g, {" "})
        iScore == Len(g) - Len(vsWord)
    IN  IF Len(g) # 0 /\ iScore # 0 THEN << <<iScore, i, vsWord>> >> ELSE <<>>

\* One word-group of folder i: nothing for an empty group, else its mapping.
GroupMapping(i, sWordGroup) ==
    LET g == trim(sWordGroup)
        iScore == Len(g)
        vsWord == split(g, {" "})
    IN  IF iScore # 0 THEN << <<iScore - Len(vsWord), i, vsWord>> >> ELSE <<>>

RECURSIVE GroupMappings(_, _)
GroupMappings(i, vsWordGroup) ==
    IF vsWordGroup = <<>> THEN <<>>
    ELSE GroupMapping(i, Head(vsWordGroup)) \o GroupMappings(i, Tail(vsWordGroup))

\* The mappings of the folders i .. size-1 of paths, in push_back order.
RECURSIVE FolderMappings(_, _)
FolderMappings(paths, i) ==
    IF i = Len(paths) THEN <<>>
    ELSE GroupMappings(i, WordGroups(filename(paths[i + 1]))) \o FolderMappings(paths, i + 1)

\* SieveVPath as it would be without the sort of vPath.
SieveVPath_Unsorted(listing) == SievePaths(listing)

\* vPath after setSieve, for one order of enumeration.
SieveVPath(listing) == SortPaths(SievePaths(listing))

\* vMapping after setSieve, for one order of enumeration.
SieveVMapping(listing) == SortMappings(FolderMappings(SieveVPath(listing), 0))

VARIABLES
    pc,             \* where main / Sifter::sift stands
    argv,           \* the options on the command line, before source and destination
    argi,           \* main's loop index i (1-based position in argv)
    bHelp, bError,  \* main's locals
    bVerbose, bDeep, bMove, bCopy, bLink, bTest, bQuiet,
    destination,    \* the entries of the destination folder
    source,         \* the entries of the source folder
    vPath, vMapping,
    vItems,         \* sift's local vector of items
    iItem,          \* position of sift's loop over vItems (1-based, next item)
    vbFound,        \* bFound of each mapping siftItem evaluated for its item
    calls,          \* the calls of Sifter::move and Sifter::hardlink, with their outcome
    cout,           \* the lines written to cout
    run,            \* 1 in the first run of the program, 2 in the second
    cout1           \* the cout of the first run

vars == << pc, argv, argi, bHelp, bError, bVerbose, bDeep, bMove, bCopy, bLink, bTest,
           bQuiet, destination, source, vPath, vMapping, vItems, iItem, vbFound,
           calls, cout, run, cout1 >>

flags == << bVerbose, bDeep, bMove, bCopy, bLink, bTest, bQuiet >>
sifter == << vPath, vMapping, vItems, iItem, vbFound, calls, cout >>


(***************************************************************************)
(* Sifter::siftItem, Sifter::move, Sifter::hardlink                        *)
(***************************************************************************)

\* The inner loop of siftItem over the words of one mapping: bFound when it ends.
RECURSIVE WordsFound(_, _)
WordsFound(vsWord, sItemName) ==
    IF vsWord = <<>> THEN TRUE
    ELSE LET sWord == Head(vsWord) IN
         IF sWord = <<>> \/ sWord[1] # "!"
         THEN IF find(sItemName, sWord) = npos THEN FALSE
              ELSE WordsFound(Tail(vsWord), sItemName)
         ELSE IF find(sItemName, substr1(sWord)) # npos THEN FALSE
              ELSE WordsFound(Tail(vsWord), sItemName)

\* The outer loop runs the inner loop once per word of the mapping; bFound
\* starts false and keeps the value of the last round.
RECURSIVE GroupFoundFrom(_, _, _, _)
GroupFoundFrom(rest, vsWord, sItemName, bFound) ==
    IF rest = <<>> THEN bFound
    ELSE GroupFoundFrom(Tail(rest), vsWord, sItemName, WordsFound(vsWord, sItemName))

\* bFound of one mapping for the item name as siftItem lower-cased it.
GroupFound(vsWord, sItemName) == GroupFoundFrom(vsWord, vsWord, sItemName, FALSE)

\* The entry of the source an item path names, and what lies below it. An item
\* of a deep run is a child of a subfolder; what lies below a child is not modelled.
SourceEntry(p) == CHOOSE e \in source : e.name = p[1]
ItemKind(p) ==
    IF Len(p) = 1 THEN SourceEntry(p).kind
    ELSE (CHOOSE c \in SourceEntry(p).sub : c.name = p[2]).kind
ItemChildren(p) == IF Len(p) = 1 THEN SourceEntry(p).sub ELSE {}

\* Sifter::move: fs::rename, then the warning. ec is TRUE when the call failed.
move(pItem, pDest) ==
    { << [op |-> "move", fs |-> "rename", from |-> pItem, to |-> pDest, top |-> TRUE,
          ec |-> ec, warned |-> ~bQuiet /\ (ec /\ bVerbose)] >> : ec \in BOOLEAN }

\* Sifter::hardlink on something that has nothing modelled below it.
HardlinkOne(pItem, kind, pDest, bShowError) ==
    IF kind = "file"
    THEN { << [op |-> "hardlink", fs |-> "create_hard_link", from |-> pItem, to |-> pDest,
               top |-> bShowError, ec |-> ec,
               warned |-> ~bQuiet /\ (ec /\ (bVerbose \/ (bShowError \/ bVerbose)))] >>
           : ec \in BOOLEAN }
    ELSE IF kind = "dir"
    THEN { << [op |-> "hardlink", fs |-> "copy_directory", from |-> pItem, to |-> pDest,
               top |-> bShowError, ec |-> ec,
               warned |-> ~bQuiet /\ (ec /\ (bShowError \/ bVerbose))] >>
           : ec \in BOOLEAN }
    ELSE { << [op |-> "hardlink", fs |-> "none", from |-> pItem, to |-> pDest,
               top |-> bShowError, ec |-> FALSE, warned |-> FALSE] >> }

\* The recursion of hardlink over the sub-items, in one order of enumeration.
RECURSIVE HardlinkSubItems(_, _, _)
HardlinkSubItems(subs, pItem, pDest) ==
    IF subs = <<>> THEN { <<>> }
    ELSE { a \o b :
             a \in HardlinkOne(pItem \o <<Head(subs).name>>, Head(subs).kind,
                               pDest \o <<Head(subs).name>>, FALSE),
             b \in HardlinkSubItems(Tail(subs), pItem, pDest) }

\* Sifter::hardlink: every sequence of calls, with outcomes, it may make.
hardlink(pItem, pDest, bShowError) ==
    IF ItemKind(pItem) = "dir"
    THEN { a \o b :
             a \in HardlinkOne(pItem, "dir", pDest, bShowError),
             b \in UNION { HardlinkSubItems(subs, pItem, pDest)
                             : subs \in Perms(ItemChildren(pItem)) } }
    ELSE HardlinkOne(pItem, ItemKind(pItem), pDest, bShowError)

\* A result of siftItem's loop from mapping k on: bFound of the mappings it
\* evaluated, the calls it made, the lines it wrote, and bNoMatch.
RECURSIVE SiftFrom(_, _)

\* SiftMove as it would be without the return after move.
SiftMove_NoReturn(pItem, pDest, k) ==
    { [found |-> <<TRUE>> \o r.found, calls |-> c \o r.calls,
       cout |-> (IF bVerbose
                 THEN << [line |-> "move", item |-> pItem, dest |-> pDest] >>
                 ELSE <<>>) \o r.cout,
       bNoMatch |-> FALSE]
      : c \in move(pItem, pDest), r \in SiftFrom(pItem, k + 1) }

\* bFound and bMove: the line of verbose, move, and the return out of siftItem.
SiftMove(pItem, pDest, k) ==
    { [found |-> <<TRUE>>, calls |-> c,
       cout |-> IF bVerbose
                THEN << [line |-> "move", item |-> pItem, dest |-> pDest] >>
                ELSE <<>>,
       bNoMatch |-> FALSE] : c \in move(pItem, pDest) }

\* bFound and bLink: the line of verbose, hardlink, and on to the next mapping.
SiftLink(pItem, pDest, k) ==
    { [found |-> <<TRUE>> \o r.found, calls |-> c \o r.calls,
       cout |-> (IF bVerbose
                 THEN << [line |-> "link", item |-> pItem, dest |-> pDest] >>
                 ELSE <<>>) \o r.cout,
       bNoMatch |-> FALSE]
      : c \in hardlink(pItem, pDest, TRUE), r \in SiftFrom(pItem, k + 1) }

\* SiftNoAction as it would be were bNoMatch cleared in the branches of bMove
\* and bLink only.
SiftNoAction_KeepsNoMatch(pItem, pDest, k) ==
    { [r EXCEPT !.found = <<TRUE>> \o @] : r \in SiftFrom(pItem, k + 1) }

\* bFound and neither bMove nor bLink: bNoMatch is cleared, nothing else is done.
SiftNoAction(pItem, pDest, k) ==
    { [r EXCEPT !.found = <<TRUE>> \o @, !.bNoMatch = FALSE] : r \in SiftFrom(pItem, k + 1) }

SiftFrom(pItem, k) ==
    IF k > Len(vMapping)
    THEN { [found |-> <<>>, calls |-> <<>>, cout |-> <<>>, bNoMatch |-> TRUE] }
    ELSE LET mapping == vMapping[k]
             sItemName == to_lower(filename(pItem))
             bFound == GroupFound(Words(mapping), sItemName)
             pDest == vPath[PathIndex(mapping) + 1] \o <<filename(pItem)>>
         IN  IF ~bFound
             THEN { [r EXCEPT !.found = <<FALSE>> \o @] : r \in SiftFrom(pItem, k + 1) }
             ELSE IF bMove THEN SiftMove(pItem, pDest, k)
             ELSE IF bLink THEN SiftLink(pItem, pDest, k)
             ELSE SiftNoAction(pItem, pDest, k)

\* siftItem: the loop over vMapping, then the report of test mode.
siftItem(pItem) ==
    { [r EXCEPT !.cout = IF bTest /\ r.bNoMatch
                         THEN @ \o << [line |-> "No match", item |-> pItem, dest |-> <<>>] >>
                         ELSE @]
      : r \in SiftFrom(pItem, 1) }


(***************************************************************************)
(* The setters of Sifter                                                   *)
(***************************************************************************)

setVerbose == bVerbose' = TRUE /\ UNCHANGED << bDeep, bMove, bCopy, bLink, bTest, bQuiet >>

setDeep == bDeep' = TRUE /\ UNCHANGED << bVerbose, bMove, bCopy, bLink, bTest, bQuiet >>

setQuiet == bQuiet' = TRUE /\ UNCHANGED << bVerbose, bDeep, bMove, bCopy, bLink, bTest >>

\* setMove as it would be had it left bLink alone.
setMove_KeepsLink ==
    /\ bMove' = TRUE
    /\ bCopy' = FALSE /\ bTest' = FALSE
    /\ UNCHANGED << bLink, bVerbose, bDeep, bQuiet >>

setMove ==
    /\ bMove' = TRUE
    /\ bLink' = FALSE /\ bCopy' = FALSE /\ bTest' = FALSE
    /\ UNCHANGED << bVerbose, bDeep, bQuiet >>

setLink ==
    /\ bLink' = TRUE
    /\ bMove' = FALSE /\ bCopy' = FALSE /\ bTest' = FALSE
    /\ UNCHANGED << bVerbose, bDeep, bQuiet >>

setCopy ==
    /\ bCopy' = TRUE
    /\ bMove' = FALSE /\ bLink' = FALSE /\ bTest' = FALSE
    /\ UNCHANGED << bVerbose, bDeep, bQuiet >>

setTest ==
    /\ bTest' = TRUE
    /\ bMove' = FALSE /\ bLink' = FALSE /\ bCopy' = FALSE
    /\ UNCHANGED << bVerbose, bDeep, bQuiet >>

(***************************************************************************)
(* main                                                                    *)
(***************************************************************************)

\* The arguments before source and destination: an option (its short form
\* stands for the long one as well), or "-x", a word main does not know.
Options == {"-m", "-c", "-l", "-t", "-d", "-q", "-v", "-h", "-x"}

\* The state of a process that has constructed its Sifter: all flags false.
Constructed ==
    /\ pc = "start"
    /\ argi = 1
    /\ bHelp = FALSE /\ bError = FALSE
    /\ bVerbose = FALSE /\ bDeep = FALSE /\ bMove = FALSE /\ bCopy = FALSE
    /\ bLink = FALSE /\ bTest = FALSE /\ bQuiet = FALSE
    /\ vPath = <<>> /\ vMapping = <<>> /\ vItems = <<>> /\ iItem = 1
    /\ vbFound = <<>> /\ calls = <<>> /\ cout = <<>>

\* sifter.setTest(), the default setting, before the loop over argv.
DefaultTest ==
    /\ pc = "start"
    /\ setTest
    /\ pc' = "args"
    /\ UNCHANGED << argv, argi, bHelp, bError, destination, source, sifter, run, cout1 >>

\* One round of the loop over argv, for the argument sArg.
Arg(sArg) ==
    /\ pc = "args"
    /\ argi <= Len(argv)
    /\ argv[argi] = sArg
    /\ argi' = argi + 1
    /\ UNCHANGED << pc, argv, destination, source, sifter, run, cout1 >>

ArgMove == Arg("-m") /\ setMove /\ UNCHANGED << bHelp, bError >>

ArgCopy == Arg("-c") /\ setCopy /\ UNCHANGED << bHelp, bError >>

ArgLink == Arg("-l") /\ setLink /\ UNCHANGED << bHelp, bError >>

ArgTest == Arg("-t") /\ setTest /\ UNCHANGED << bHelp, bError >>

ArgDeep == Arg("-d") /\ setDeep /\ UNCHANGED << bHelp, bError >>

ArgQuiet == Arg("-q") /\ setQuiet /\ UNCHANGED << bHelp, bError >>

ArgVerbose == Arg("-v") /\ setVerbose /\ UNCHANGED << bHelp, bError >>

ArgHelp == Arg("-h") /\ bHelp' = TRUE /\ UNCHANGED << bError, flags >>

ArgUnknown == Arg("-x") /\ bError' = TRUE /\ UNCHANGED << bHelp, flags >>

\* After the loop: usage (and help) and return 1.
Usage ==
    /\ pc = "args"
    /\ argi > Len(argv)
    /\ bError \/ bHelp
    /\ pc' = "return1"
    /\ UNCHANGED << argv, argi, bHelp, bError, flags, destination, source, sifter,
                    run, cout1 >>

\* After the loop: everything seems fine, sifter.sift is entered.
Sift ==
    /\ pc = "args"
    /\ argi > Len(argv)
    /\ ~(bError \/ bHelp)
    /\ pc' = "setSieve"
    /\ UNCHANGED << argv, argi, bHelp, bError, flags, destination, source, sifter,
                    run, cout1 >>

(***************************************************************************)
(* Sifter::sift                                                            *)
(***************************************************************************)

\* setSieve(pDestination), for some order of enumeration of the destination.
SetSieve ==
    /\ pc = "setSieve"
    /\ \E listing \in Perms(destination) :
          /\ vPath' = SieveVPath(listing)
          /\ vMapping' = SieveVMapping(listing)
    /\ pc' = "list"
    /\ UNCHANGED << argv, argi, bHelp, bError, flags, destination, source, vItems,
                    iItem, vbFound, calls, cout, run, cout1 >>

\* The children of the subfolders e of the source, in one order of enumeration each.
RECURSIVE DeepItems(_)
DeepItems(entries) ==
    IF entries = <<>> THEN { <<>> }
    ELSE IF Head(entries).kind # "dir" THEN DeepItems(Tail(entries))
    ELSE { [k \in 1..Len(subs) |-> <<Head(entries).name, subs[k].name>>] \o rest
           : subs \in Perms(Head(entries).sub), rest \in DeepItems(Tail(entries)) }

\* vItems as pushed back, before the sort, for every order of enumeration.
Listings ==
    IF bDeep = FALSE
    THEN { [k \in 1..Len(entries) |-> <<entries[k].name>>] : entries \in Perms(source) }
    ELSE UNION { DeepItems(entries) : entries \in Perms(source) }

\* The listing of the source into vItems and its sort.
ListItems ==
    /\ pc = "list"
    /\ \E listing \in Listings : vItems' = SortPaths(listing)
    /\ iItem' = 1
    /\ pc' = "items"
    /\ UNCHANGED << argv, argi, bHelp, bError, flags, destination, source, vPath,
                    vMapping, vbFound, calls, cout, run, cout1 >>

\* The source after a rename of the item at path p succeeded.
Renamed(p) ==
    IF Len(p) = 1 THEN { e \in source : e.name # p[1] }
    ELSE { IF e.name = p[1]
           THEN [e EXCEPT !.sub = { c \in e.sub : c.name # p[2] }]
           ELSE e : e \in source }

\* One round of the loop over vItems: siftItem(pItem).
SiftItem ==
    /\ pc = "items"
    /\ iItem <= Len(vItems)
    /\ \E r \in siftItem(vItems[iItem]) :
          /\ vbFound' = r.found
          /\ calls' = calls \o r.calls
          /\ cout' = cout \o r.cout
          /\ source' = IF \E k \in 1..Len(r.calls) :
                             r.calls[k].fs = "rename" /\ ~r.calls[k].ec
                       THEN Renamed(vItems[iItem])
                       ELSE source
    /\ iItem' = iItem + 1
    /\ UNCHANGED << pc, argv, argi, bHelp, bError, flags, destination, vPath, vMapping,
                    vItems, run, cout1 >>

\* The loop over vItems is over: sift returns, main returns 0.
Return0 ==
    /\ pc = "items"
    /\ iItem > Len(vItems)
    /\ pc' = "return0"
    /\ UNCHANGED << argv, argi, bHelp, bError, flags, destination, source, sifter,
                    run, cout1 >>

\* The program is run a second time with the same command line on the
\* folders as the first run left them.
Rerun ==
    /\ pc = "return0"
    /\ run = 1
    /\ run' = 2
    /\ cout1' = cout
    /\ pc' = "start"
    /\ argi' = 1
    /\ bHelp' = FALSE /\ bError' = FALSE
    /\ bVerbose' = FALSE /\ bDeep' = FALSE /\ bMove' = FALSE /\ bCopy' = FALSE
    /\ bLink' = FALSE /\ bTest' = FALSE /\ bQuiet' = FALSE
    /\ vPath' = <<>> /\ vMapping' = <<>> /\ vItems' = <<>> /\ iItem' = 1
    /\ vbFound' = <<>> /\ calls' = <<>> /\ cout' = <<>>
    /\ UNCHANGED << argv, destination, source >>

Next ==
    \/ DefaultTest
    \/ ArgMove \/ ArgCopy \/ ArgLink \/ ArgTest
    \/ ArgDeep \/ ArgQuiet \/ ArgVerbose \/ ArgHelp \/ ArgUnknown
    \/ Usage \/ Sift
    \/ SetSieve \/ ListItems \/ SiftItem \/ Return0
    \/ Rerun


(***************************************************************************)
(* Folders the program is run on                                           *)
(***************************************************************************)

\* The strings of 1 .. n characters of chars.
Str(chars, n) == UNION { [1..k -> chars] : k \in 1..n }

\* The subsets of S of at most n elements.
RECURSIVE AtMost(_, _)
AtMost(S, n) ==
    IF n = 0 THEN { {} }
    ELSE LET smaller == AtMost(S, n - 1)
         IN  smaller \cup { T \cup {x} : T \in smaller, x \in S }

\* A folder holds no two entries of the same name.
DistinctNames(entries) == \A e, f \in entries : e.name = f.name => e = f

Dir(name) == [name |-> name, kind |-> "dir"]
File(name) == [name |-> name, kind |-> "file", sub |-> {}]
Other(name) == [name |-> name, kind |-> "other", sub |-> {}]
Folder(name, sub) == [name |-> name, kind |-> "dir", sub |-> sub]
Child(name, kind) == [name |-> name, kind |-> kind]

\* The example of the help text and its item.
ScienceFiction ==
    << "S", "c", "i", "e", "n", "c", "e", " ", "F", "i", "c", "t", "i", "o", "n",
           " ", "(", "s", "c", "i", "-", "f", "i", ",", " ", "s", "p", "a", "c",
           "e", " ", "o", "p", "e", "r", "a", ")" >>
Science ==
    << "S", "c", "i", "e", "n", "c", "e" >>
HardScienceFictionEpic ==
    << "h", "a", "r", "d", " ", "s", "c", "i", "e", "n", "c", "e", " ", "f", "i",
           "c", "t", "i", "o", "n", " ", "e", "p", "i", "c" >>

\* A sieve of two folders whose groups share a word, and two items for it.
Horror ==
    << "H", "o", "r", "r", "o", "r", " ", "(", "z", "o", "m", "b", "i", "e", ",",
           " ", "!", "c", "o", "m", "e", "d", "y", ")" >>
HorrorComedy ==
    << "H", "o", "r", "r", "o", "r", " ", "C", "o", "m", "e", "d", "y", " ", "(",
           "z", "o", "m", "b", "i", "e", ",", " ", "c", "o", "m", "e", "d", "y",
           ")" >>
ZombieApocalypse ==
    << "z", "o", "m", "b", "i", "e", "-", "a", "p", "o", "c", "a", "l", "y", "p",
           "s", "e", ".", "m", "k", "v" >>
ZombieComedyNight ==
    << "z", "o", "m", "b", "i", "e", "-", "c", "o", "m", "e", "d", "y", "-", "n",
           "i", "g", "h", "t", ".", "m", "k", "v" >>

ScienceDestination == { Dir(ScienceFiction), Dir(Science) }
ScienceSource == { File(HardScienceFictionEpic) }
HorrorDestination == { Dir(Horror), Dir(HorrorComedy) }
HorrorSource == { File(ZombieApocalypse), File(ZombieComedyNight) }


\* A sieve and a source of subfolders, for a deep run and for a link of folders.
NestedDestination == { Dir(<<"a">>), Dir(<<"B", ",", "a", "b">>) }
NestedSource ==
    { Folder(<<"a">>, { Child(<<"A", "b">>, "file"), Child(<<"b">>, "dir") }),
      Folder(<<"c">>, { Child(<<"a">>, "other") }),
      File(<<"B", "a">>) }

Examples ==
    { <<ScienceDestination, ScienceSource>>,
      <<HorrorDestination, HorrorSource>>,
      <<NestedDestination, NestedSource>> }

(***************************************************************************)
(* The program, run on the examples with every short command line          *)
(***************************************************************************)

\* The command lines of at most MaxArgs options.
MaxArgs == 2
Argvs == UNION { [1..k -> Options] : k \in 0..MaxArgs }

\* The first run of a process that has constructed its Sifter.
FirstRun == Constructed /\ run = 1 /\ cout1 = <<>>

Init ==
    /\ FirstRun
    /\ argv \in Argvs
    /\ \E fs \in Examples : destination = fs[1] /\ source = fs[2]

Spec == Init /\ [][Next]_vars

(***************************************************************************)
(* The program, run in every mode on small folders                         *)
(***************************************************************************)

\* A mode option, then any of -q and -v; -d, -h and the unknown word once.
SiftArgvs ==
    { <<m>> \o q \o v : m \in {"-m", "-c", "-l", "-t"},
                        q \in {<<>>, <<"-q">>}, v \in {<<>>, <<"-v">>} }
    \cup { <<>>, <<"-d">>, <<"-d", "-l">>, <<"-d", "-m">>, <<"-h">>, <<"-x">> }

\* At most MaxFolders subfolders in the destination, MaxItems files in the source.
MaxFolders == 2
MaxItems == 2
SiftFolderNames ==
    { <<"a">>, <<"B">>, <<"a", "B">>, <<"a", ",", "B">>, <<"!", "b">>, <<"a", " ", "!", "b">> }
SiftItemNames == { <<"A">>, <<"a", "b">>, <<"B">>, <<"c">> }
SiftDestinations ==
    { d \in AtMost({ Dir(n) : n \in SiftFolderNames }, MaxFolders) : DistinctNames(d) }
SiftSources ==
    { s \in AtMost({ File(n) : n \in SiftItemNames }, MaxItems) : DistinctNames(s) }

InitSift ==
    /\ FirstRun
    /\ argv \in SiftArgvs
    /\ \E fs \in Examples \cup (SiftDestinations \X SiftSources) :
          destination = fs[1] /\ source = fs[2]

SpecSift == InitSift /\ [][Next]_vars

(***************************************************************************)
(* setSieve and siftItem on their own                                      *)
(***************************************************************************)

\* What main has done when it enters sift for the command line
\* "sift source destination": the default setTest(), no option.
EnteredSift ==
    /\ pc = "setSieve"
    /\ argv = <<>> /\ argi = 1
    /\ bHelp = FALSE /\ bError = FALSE
    /\ bTest = TRUE
    /\ bVerbose = FALSE /\ bDeep = FALSE /\ bMove = FALSE /\ bCopy = FALSE
    /\ bLink = FALSE /\ bQuiet = FALSE
    /\ vPath = <<>> /\ vMapping = <<>> /\ vItems = <<>> /\ iItem = 1
    /\ vbFound = <<>> /\ calls = <<>> /\ cout = <<>>
    /\ run = 1 /\ cout1 = <<>>

NextSift == SetSieve \/ ListItems \/ SiftItem \/ Return0

\* Destinations of at most SieveFolders entries: folders with names of at most
\* SieveGroups groups, each one of SieveWords, and files; one file to sift.
SieveGroups == 2
SieveFolders == 2
SieveWords == { <<"a">>, <<"B">>, <<"a", "B">> }

RECURSIVE JoinGroups(_)
JoinGroups(groups) ==
    IF Len(groups) = 1 THEN groups[1]
    ELSE groups[1] \o <<",">> \o JoinGroups(Tail(groups))

SieveNames == { JoinGroups(g) : g \in Str(SieveWords, SieveGroups) }
SieveDestinations ==
    { d \in AtMost({ Dir(n) : n \in SieveNames }
                     \cup { [name |-> n, kind |-> "file"] : n \in SieveWords },
                   SieveFolders) : DistinctNames(d) }

\* One subfolder with a name of at most GroupNameLen characters and one file
\* with a name of at most ItemNameLen characters.
GroupNameLen == 4
ItemNameLen == 2
GroupFolderNames == Str({"a", "B", " ", ",", "!"}, GroupNameLen)
GroupItemNames == Str({"A", "b"}, ItemNameLen)

\* A group of a word and a negated word, and two items for it.
FictionNotYoung ==
    << "f", "i", "c", "t", "i", "o", "n", " ", "!", "y", "o", "u", "n", "g" >>
ScienceFictionSaga ==
    << "s", "c", "i", "e", "n", "c", "e", " ", "f", "i", "c", "t", "i", "o", "n",
       " ", "s", "a", "g", "a" >>
YoungAdultFictionSaga ==
    << "y", "o", "u", "n", "g", " ", "a", "d", "u", "l", "t", " ", "f", "i", "c",
       "t", "i", "o", "n", " ", "s", "a", "g", "a" >>

InitSieve ==
    /\ EnteredSift
    /\ \/ /\ destination \in SieveDestinations
          /\ source = { File(<<"a", "b">>) }
       \/ /\ \E n \in GroupFolderNames : destination = { Dir(n) }
          /\ \E n \in GroupItemNames : source = { File(n) }
       \/ /\ destination = { Dir(FictionNotYoung) }
          /\ \E n \in {ScienceFictionSaga, YoungAdultFictionSaga} : source = { File(n) }

SpecSieve == InitSieve /\ [][NextSift]_vars


(***************************************************************************)
(* What the properties are stated with                                     *)
(***************************************************************************)

\* w occurs in s as a run of consecutive characters.
IsSubstring(w, s) ==
    \E p \in 0..(Len(s) - Len(w)) : \A q \in 1..Len(w) : s[p + q] = w[q]

\* s with A-Z replaced by a-z.
LowerCased(s) ==
    [k \in 1..Len(s) |->
        IF \E j \in 1..26 : Upper[j] = s[k]
        THEN Lower[CHOOSE j \in 1..26 : Upper[j] = s[k]]
        ELSE s[k]]

IsNegated(w) == w # <<>> /\ w[1] = "!"

\* Every non-negated word of the group occurs in the name, and no negated
\* word does, without its leading '!'.
Satisfies(name, group) ==
    \A k \in 1..Len(group) :
        IF IsNegated(group[k])
        THEN ~IsSubstring(SubSeq(group[k], 2, Len(group[k])), name)
        ELSE IsSubstring(group[k], name)

\* The items siftItem has been called for, and the one it ran last.
Sifted == IF pc \in {"items", "return0"} THEN { vItems[k] : k \in 1..(iItem - 1) } ELSE {}
LastItem == vItems[iItem - 1]
SiftedOne == pc \in {"items", "return0"} /\ iItem > 1

\* The mappings of the table the item satisfies, by position.
SatisfiedAt(pItem) ==
    { k \in 1..Len(vMapping) : Satisfies(LowerCased(filename(pItem)), Words(vMapping[k])) }

\* The folder name of the destination a call or a line names.
DestFolder(pDest) == pDest[1]

\* The sieve is built.
SieveBuilt == pc \in {"list", "items", "return0"}

\* C2: siftItem finds a group of the table satisfied exactly when every
\* non-negated word occurs in the lower-cased name of the item and no negated
\* word does; so {fiction, !young} is satisfied by "science fiction saga" and
\* not by "young adult fiction saga", and the case of the item name is immaterial.
C2_MatcherPredicate ==
    SiftedOne /\ bTest =>
        /\ Len(vbFound) = Len(vMapping)
        /\ \A k \in 1..Len(vMapping) :
              vbFound[k] = Satisfies(LowerCased(filename(LastItem)), Words(vMapping[k]))
        /\ (destination = { Dir(FictionNotYoung) } /\ LastItem = <<ScienceFictionSaga>>
              => vbFound = <<TRUE>>)
        /\ (destination = { Dir(FictionNotYoung) } /\ LastItem = <<YoungAdultFictionSaga>>
              => vbFound = <<FALSE>>)

\* C2 witness: an item with a capital letter was found to satisfy a group of a
\* word and a negated word.
C2_Witness ==
    /\ SiftedOne
    /\ filename(LastItem) # LowerCased(filename(LastItem))
    /\ \E k \in 1..Len(vbFound) :
          /\ vbFound[k]
          /\ \E i, j \in 1..Len(Words(vMapping[k])) :
                IsNegated(Words(vMapping[k])[i]) /\ ~IsNegated(Words(vMapping[k])[j])


\* a is a prefix of b, or is less than b at the first position they differ in.
LexLeq(a, b, Lt(_, _)) ==
    \E p \in 1..(Len(a) + 1) :
        /\ \A q \in 1..(p - 1) : q <= Len(b) /\ a[q] = b[q]
        /\ p = Len(a) + 1 \/ (p <= Len(b) /\ Lt(a[p], b[p]))

CharLt(c, d) == Ord(c) < Ord(d)
NameLeq(a, b) == LexLeq(a, b, CharLt)
NameLt(a, b) == NameLeq(a, b) /\ a # b
GroupLeq(g, h) == LexLeq(g, h, NameLt)

\* m may stand before n: lower score, or equal score and lower folder index,
\* or both equal and the words of m not after those of n.
MappingOrdered(m, n) ==
    \/ Score(m) < Score(n)
    \/ Score(m) = Score(n) /\ PathIndex(m) < PathIndex(n)
    \/ Score(m) = Score(n) /\ PathIndex(m) = PathIndex(n) /\ GroupLeq(Words(m), Words(n))

\* The names of the subfolders of the destination.
SubfolderNames == { e.name : e \in { f \in destination : f.kind = "dir" } }

\* C8 (state part): once built, vPath is the list of the subfolders sorted by
\* name, vMapping is sorted by score, then folder index, then words, and both
\* are what every other order of enumeration of the destination yields.
C8_Sorted ==
    SieveBuilt =>
        /\ { filename(vPath[k]) : k \in 1..Len(vPath) } = SubfolderNames
        /\ \A j, k \in 1..Len(vPath) : j < k => NameLt(filename(vPath[j]), filename(vPath[k]))
        /\ \A k \in 1..Len(vMapping) : PathIndex(vMapping[k]) \in 0..(Len(vPath) - 1)
        /\ \A j, k \in 1..Len(vMapping) : j < k => MappingOrdered(vMapping[j], vMapping[k])
        /\ \A listing \in Perms(destination) :
              SieveVPath(listing) = vPath /\ SieveVMapping(listing) = vMapping

\* C8: the table is sorted and the same for every order of enumeration, and
\* neither it nor the folder list changes once built, while items are sifted.
C8_SortedTable ==
    /\ []C8_Sorted
    /\ [][SieveBuilt => UNCHANGED << vPath, vMapping >>]_vars

\* C8 witness: items were sifted with a table of two folders that holds two
\* mappings of equal score of different folders.
C8_Witness ==
    /\ SiftedOne
    /\ Len(vPath) >= 2
    /\ Len(vMapping) >= 3
    /\ \E j, k \in 1..Len(vMapping) :
          /\ Score(vMapping[j]) = Score(vMapping[k])
          /\ PathIndex(vMapping[j]) # PathIndex(vMapping[k])

Delims == {"(", ")", ","}

\* The groups of a folder name with something in them: a span a..b of the name
\* without delimiter that starts and ends with a character that is no space,
\* with nothing but spaces between it and the delimiters (or ends) around it.
GroupStart(s, a) ==
    /\ s[a] \notin Delims \cup {" "}
    /\ \A j \in 1..(a - 1) : (\A m \in j..a : s[m] \notin Delims) => s[j] = " "
GroupEnd(s, b) ==
    /\ s[b] \notin Delims \cup {" "}
    /\ \A j \in (b + 1)..Len(s) : (\A m \in b..j : s[m] \notin Delims) => s[j] = " "
GroupSpans(s) ==
    { sp \in (1..Len(s)) \X (1..Len(s)) :
        /\ sp[1] <= sp[2]
        /\ GroupStart(s, sp[1]) /\ GroupEnd(s, sp[2])
        /\ \A m \in sp[1]..sp[2] : s[m] \notin Delims }

\* The words of a span start where a character that is no space follows a space.
SpanWords(s, sp) ==
    Cardinality({ k \in sp[1]..sp[2] : s[k] # " " /\ (k = sp[1] \/ s[k - 1] = " ") })

\* Length of the trimmed group text minus its word count.
SpanScore(s, sp) == (sp[2] - sp[1] + 1) - SpanWords(s, sp)

\* The positions in vMapping of the mappings of folder i (0-based).
MappingsOf(i) == { k \in 1..Len(vMapping) : PathIndex(vMapping[k]) = i }

\* C10 as stated: no pattern of score 0 is in the table.
C10_ScoreZeroNotStored ==
    SieveBuilt => \A k \in 1..Len(vMapping) : Score(vMapping[k]) # 0

\* C10 as amended: a group is dropped exactly when its trimmed text is empty,
\* so a group of score 0 is stored as well; every stored pattern has the score
\* of its group (length of the trimmed text minus word count), which is >= 0,
\* and at least one word, none of them empty.
C10_OnlyEmptyGroupsDropped ==
    SieveBuilt =>
        \A i \in 1..Len(vPath) :
            LET s == filename(vPath[i])
            IN  /\ Cardinality(MappingsOf(i - 1)) = Cardinality(GroupSpans(s))
                /\ \A sp \in GroupSpans(s) :
                      \E k \in MappingsOf(i - 1) :
                          /\ Score(vMapping[k]) = SpanScore(s, sp)
                          /\ Len(Words(vMapping[k])) = SpanWords(s, sp)
                /\ \A k \in MappingsOf(i - 1) :
                      /\ Score(vMapping[k]) >= 0
                      /\ Len(Words(vMapping[k])) >= 1
                      /\ \A w \in 1..Len(Words(vMapping[k])) : Words(vMapping[k])[w] # <<>>
                      /\ \E sp \in GroupSpans(s) : Score(vMapping[k]) = SpanScore(s, sp)

\* C10 witness: a folder name with an empty group and a group of score 0, of
\* which the table holds the latter.
C10_Witness ==
    /\ SieveBuilt
    /\ Len(vPath) = 1
    /\ Len(split(trim(filename(vPath[1])), Delims)) > Len(vMapping)
    /\ \E k \in 1..Len(vMapping) : Score(vMapping[k]) = 0


ModeOptions == {"-m", "-l", "-c", "-t"}

\* The options main has gone through.
Parsed == SubSeq(argv, 1, argi - 1)

\* The last mode option of a command line, -t if it has none.
LastModeOption(opts) ==
    IF \A k \in 1..Len(opts) : opts[k] \notin ModeOptions THEN "-t"
    ELSE opts[CHOOSE k \in 1..Len(opts) :
                 /\ opts[k] \in ModeOptions
                 /\ \A j \in (k + 1)..Len(opts) : opts[j] \notin ModeOptions]

\* The modes that are active.
ActiveModes ==
    { m \in ModeOptions : \/ m = "-m" /\ bMove
                          \/ m = "-l" /\ bLink
                          \/ m = "-c" /\ bCopy
                          \/ m = "-t" /\ bTest }

\* C9: from the default setTest() on, exactly one of move, link, copy and
\* test is active, the one of the last mode option main has gone through
\* (test if there was none), whatever -d, -q and -v came between or after.
C9_ModeExclusive ==
    pc # "start" => ActiveModes = { LastModeOption(Parsed) }

\* C9 witness: main enters sift in move mode after -m and then -q.
C9_Witness ==
    pc = "setSieve" /\ argv = <<"-m", "-q">> /\ bMove /\ bQuiet

\* The calls siftItem made for an item, by position in calls.
CallsFor(pItem) == { j \in 1..Len(calls) : calls[j].top /\ calls[j].from = pItem }

\* The least element of a non-empty set of numbers.
Least(S) == CHOOSE k \in S : \A j \in S : k <= j

\* The folder of mapping k.
FolderOf(k) == filename(vPath[PathIndex(vMapping[k]) + 1])

\* C1 as stated: a move goes to the folder of a pattern of highest score among
\* those the item satisfies; "hard science fiction epic" goes to the folder
\* "Science Fiction (sci-fi, space opera)" and not to "Science".
C1_MostSpecificFirst ==
    bMove =>
        \A j \in 1..Len(calls) :
            /\ \E k \in SatisfiedAt(calls[j].from) :
                  /\ FolderOf(k) = DestFolder(calls[j].to)
                  /\ \A n \in SatisfiedAt(calls[j].from) :
                        Score(vMapping[n]) <= Score(vMapping[k])
            /\ (destination = ScienceDestination /\ calls[j].from = <<HardScienceFictionEpic>>
                  => DestFolder(calls[j].to) = ScienceFiction)

\* The part of C1 about the example of the help text alone.
C1_ScienceFictionExample ==
    bMove /\ destination = ScienceDestination =>
        \A j \in 1..Len(calls) :
            calls[j].from = <<HardScienceFictionEpic>>
                => DestFolder(calls[j].to) = ScienceFiction

\* C5 as stated: of the two zombie items, the first is moved to "Horror
\* (zombie, !comedy)" and the second to "Horror Comedy (zombie, comedy)".
C5_HorrorScenario ==
    bMove /\ destination = HorrorDestination =>
        \A j \in 1..Len(calls) :
            /\ calls[j].from = <<ZombieApocalypse>> => DestFolder(calls[j].to) = Horror
            /\ calls[j].from = <<ZombieComedyNight>> => DestFolder(calls[j].to) = HorrorComedy

\* C3: in move mode siftItem makes no call for an item that satisfies no
\* pattern and one call for any other item, a move into the folder of the first
\* pattern of the table it satisfies, and evaluates no pattern after that one,
\* whether the move failed or not.
C3_MoveFirstMatch ==
    bMove /\ pc \in {"items", "return0"} =>
        /\ \A j \in 1..Len(calls) : calls[j].op = "move" /\ calls[j].from \in Sifted
        /\ \A pItem \in Sifted :
              IF SatisfiedAt(pItem) = {}
              THEN CallsFor(pItem) = {}
              ELSE /\ Cardinality(CallsFor(pItem)) = 1
                   /\ \A j \in CallsFor(pItem) :
                         calls[j].to = << FolderOf(Least(SatisfiedAt(pItem))), filename(pItem) >>
        /\ iItem > 1 =>
              Len(vbFound) = IF SatisfiedAt(LastItem) = {} THEN Len(vMapping)
                             ELSE Least(SatisfiedAt(LastItem))

\* C3 witness: the move of an item that satisfies two patterns failed.
C3_Witness ==
    /\ bMove /\ SiftedOne
    /\ Cardinality(SatisfiedAt(LastItem)) >= 2
    /\ \E j \in CallsFor(LastItem) : calls[j].ec

\* C4 as stated: in link mode and in copy mode siftItem makes one call for the
\* item per pattern of the table the item satisfies, into the folder of that pattern.
C4_ActionPerMatch ==
    (bLink \/ bCopy) /\ pc \in {"items", "return0"} =>
        \A pItem \in Sifted :
            /\ Cardinality(CallsFor(pItem)) = Cardinality(SatisfiedAt(pItem))
            /\ \A k \in SatisfiedAt(pItem) :
                  \E j \in CallsFor(pItem) : calls[j].to = << FolderOf(k), filename(pItem) >>

\* C4 for link mode alone.
C4_LinkPerMatch ==
    bLink /\ pc \in {"items", "return0"} =>
        \A pItem \in Sifted :
            /\ Cardinality(CallsFor(pItem)) = Cardinality(SatisfiedAt(pItem))
            /\ \A k \in SatisfiedAt(pItem) :
                  \E j \in CallsFor(pItem) :
                      /\ calls[j].op = "hardlink"
                      /\ calls[j].to = << FolderOf(k), filename(pItem) >>

\* C6 as stated: a failed move or link of an item is warned about unless quiet
\* is set and verbose is not, and the run goes on to the items after it.
C6_FailureWarned ==
    /\ \A j \in 1..Len(calls) :
          calls[j].top /\ calls[j].ec => (calls[j].warned <=> ~(bQuiet /\ ~bVerbose))
    /\ pc = "return0" => iItem = Len(vItems) + 1

\* C6 for the failed links of a run without -q.
C6_LinkFailureWarned ==
    ~bQuiet =>
        \A j \in 1..Len(calls) :
            calls[j].top /\ calls[j].ec /\ calls[j].op = "hardlink" => calls[j].warned

\* The lines "No match" of test mode for the items sifted so far, in their order.
RECURSIVE NoMatchLines(_)
NoMatchLines(items) ==
    IF items = <<>> THEN <<>>
    ELSE (IF SatisfiedAt(Head(items)) = {}
          THEN << [line |-> "No match", item |-> Head(items), dest |-> <<>>] >>
          ELSE <<>>) \o NoMatchLines(Tail(items))

\* C7: in test mode no call of move or hardlink is made, "No match" is written
\* for the sifted items that satisfy no pattern and for no other, and a second
\* run on the same folders writes what the first wrote.
C7_TestMode ==
    bTest =>
        /\ calls = <<>>
        /\ pc \in {"items", "return0"} => cout = NoMatchLines(SubSeq(vItems, 1, iItem - 1))
        /\ run = 2 /\ pc = "return0" => cout = cout1

\* C7 witness: the second test run is over; of its items one satisfied a
\* pattern and another, reported, none.
C7_Witness ==
    /\ bTest /\ run = 2 /\ pc = "return0"
    /\ cout # <<>>
    /\ Len(cout) < Len(vItems)

====
